---- MODULE Spec2Model ----
(***************************************************************************)
(* A model of package present (src/present/path.go): FromRequest, the path *)
(* dispatcher and trace-matcher builder, the buffering wrapper it puts     *)
(* around every producer, and shift.                                       *)
(*                                                                         *)
(* Go strings are sequences of one-character strings.  A uint64 is a       *)
(* sequence of WordLen hexadecimal digits, most significant first; an      *)
(* int64 is a sign and a magnitude, so that two int64 values are equal     *)
(* exactly when they are the same number.                                  *)
(***************************************************************************)
EXTENDS Integers, Sequences, FiniteSets, TLC

VARIABLES
  funcs,        \* the registry: the full names of the functions it knows
  path,         \* FromRequest's path argument
  query,        \* FromRequest's query argument (url.Values)
  f,            \* FromRequest's first result (a Result, or nil)
  contentType,  \* FromRequest's second result
  err,          \* FromRequest's third result
  regAtCall,    \* the registry's functions when FromRequest ran
  pc,           \* the request: "idle", "failed", "ready", "running", "returned"
  buf,          \* the bufio.Writer: number of bytes it holds
  sink,         \* number of bytes the request's io.Writer has received
  nwrites,      \* number of Write calls of the inner producer so far
  written,      \* number of bytes the inner producer has written
  inner,        \* the error the inner producer returned
  ret,          \* the error the wrapped producer returned
  span,         \* the last span handed to the span matcher
  matched       \* what the span matcher answered for it

vars == <<funcs, path, query, f, contentType, err, regAtCall, pc, buf, sink,
          nwrites, written, inner, ret, span, matched>>

----------------------------------------------------------------------------
(* Bounds of the model. *)

MaxSlashes == 2

MaxWrites == 2

----------------------------------------------------------------------------
(* Strings. *)

EmptyStr == <<>>

ps == <<"p", "s">>

funcsSeg == <<"f", "u", "n", "c", "s">>

stats == <<"s", "t", "a", "t", "s">>

trace == <<"t", "r", "a", "c", "e">>

text == <<"t", "e", "x", "t">>

dot == <<"d", "o", "t">>

json == <<"j", "s", "o", "n">>

svg == <<"s", "v", "g">>

TextPlain == "text/plain; charset=utf-8"

ApplicationJSON == "application/json; charset=utf-8"

ImageSVG == "image/svg+xml; charset=utf-8"

----------------------------------------------------------------------------
(* A variant of TrimLeft that strips one slash only *)
TrimLeftOnce(s) ==
  IF s # <<>> /\ Head(s) = "/" THEN Tail(s) ELSE s

(* strings.TrimLeft(path, "/") *)
RECURSIVE TrimLeft(_)
TrimLeft(s) ==
  IF s # <<>> /\ Head(s) = "/" THEN TrimLeft(Tail(s)) ELSE s

(* strings.Index(path, "/"): the 0-based index of the first slash, or -1 *)
Index(s) ==
  IF \E i \in 1..Len(s) : s[i] = "/"
  THEN (CHOOSE i \in 1..Len(s) : s[i] = "/" /\ \A j \in 1..(i - 1) : s[j] # "/") - 1
  ELSE -1

(* shift: <<dir, left>> *)
shift(p) ==
  LET trimmed == TrimLeft(p)
      split == Index(trimmed)
  IN IF split = -1
     THEN <<trimmed, EmptyStr>>
     ELSE <<SubSeq(trimmed, 1, split), SubSeq(trimmed, split + 1, Len(trimmed))>>

----------------------------------------------------------------------------
(* url.Values.Get: the first value of the key, "" when the key has none. *)
Get(q, key) == IF q[key] = <<>> THEN EmptyStr ELSE q[key][1]

----------------------------------------------------------------------------
(* Errors. *)

NoErr == [class |-> "nil", msg |-> "", arg |-> EmptyStr]

BadRequestNew(m, a) == [class |-> "Bad Request", msg |-> m, arg |-> a]

NotFoundNew(m, a) == [class |-> "Not Found", msg |-> m, arg |-> a]

----------------------------------------------------------------------------
(* 64-bit numbers. *)

WordLen == 16

Base == 16

HexLower == <<"0", "1", "2", "3", "4", "5", "6", "7", "8", "9",
              "a", "b", "c", "d", "e", "f">>

HexUpper == <<"0", "1", "2", "3", "4", "5", "6", "7", "8", "9",
              "A", "B", "C", "D", "E", "F">>

(* The digit a character stands for; Base for a character that is no digit *)
(* of the base (strconv rejects it with a syntax error).                   *)
DigitVal(c) ==
  IF \E i \in 1..Base : HexLower[i] = c \/ HexUpper[i] = c
  THEN (CHOOSE i \in 1..Base : HexLower[i] = c \/ HexUpper[i] = c) - 1
  ELSE Base

Zero == [i \in 1..WordLen |-> 0]

(* strconv.ParseUint(s, 16, 64)'s loop: n is the value so far.  n >= cutoff *)
(* (2^64 / 16) is n's top digit being non-zero; n*16 + d then shifts d in.  *)
RECURSIVE ParseLoop(_, _)
ParseLoop(s, n) ==
  IF s = <<>> THEN [ok |-> TRUE, val |-> n]
  ELSE LET d == DigitVal(Head(s))
       IN IF d >= Base THEN [ok |-> FALSE, val |-> Zero]
          ELSE IF n[1] # 0 THEN [ok |-> FALSE, val |-> Zero]
          ELSE ParseLoop(Tail(s), Tail(n) \o <<d>>)

ParseUint(s) ==
  IF s = <<>> THEN [ok |-> FALSE, val |-> Zero] ELSE ParseLoop(s, Zero)

(* w + 1 modulo 2^64 *)
RECURSIVE Inc(_)
Inc(w) ==
  IF w = <<>> THEN <<>>
  ELSE IF w[Len(w)] < Base - 1 THEN [w EXCEPT ![Len(w)] = @ + 1]
  ELSE Inc(SubSeq(w, 1, Len(w) - 1)) \o <<0>>

(* 2^64 - w modulo 2^64: the two's complement of w *)
Negate(w) == Inc([i \in 1..Len(w) |-> (Base - 1) - w[i]])

(* A variant of ToInt64 that saturates at the largest int64 *)
ToInt64Saturating(w) ==
  IF 2 * w[1] >= Base
  THEN [neg |-> FALSE, mag |-> [i \in 1..Len(w) |-> IF i = 1 THEN 7 ELSE Base - 1]]
  ELSE [neg |-> FALSE, mag |-> w]

(* The conversion int64(traceId): the 64 bits of w read as a signed number. *)
ToInt64(w) ==
  IF 2 * w[1] >= Base
  THEN [neg |-> TRUE, mag |-> Negate(w)]
  ELSE [neg |-> FALSE, mag |-> w]

----------------------------------------------------------------------------
(* strconv.ParseBool *)
ParseBool(s) ==
  IF s \in {<<"1">>, <<"t">>, <<"T">>, <<"T", "R", "U", "E">>,
            <<"t", "r", "u", "e">>, <<"T", "r", "u", "e">>}
  THEN [ok |-> TRUE, val |-> TRUE]
  ELSE IF s \in {<<"0">>, <<"f">>, <<"F">>, <<"F", "A", "L", "S", "E">>,
                 <<"f", "a", "l", "s", "e">>, <<"F", "a", "l", "s", "e">>}
  THEN [ok |-> TRUE, val |-> FALSE]
  ELSE [ok |-> FALSE, val |-> FALSE]

----------------------------------------------------------------------------
(* Regular expressions over literals, ".", "*", a leading "^", a trailing  *)
(* "$" and parentheses (which the patterns used here never balance).       *)

(* The nesting depth after each prefix of the pattern *)
RECURSIVE Depth(_, _)
Depth(re, k) ==
  IF k = 0 THEN 0
  ELSE Depth(re, k - 1)
       + (IF re[k] = "(" THEN 1 ELSE IF re[k] = ")" THEN -1 ELSE 0)

(* regexp.Compile succeeds *)
Compile(re) ==
  /\ \A k \in 1..Len(re) : Depth(re, k) >= 0
  /\ Depth(re, Len(re)) = 0
  /\ \A k \in 1..Len(re) :
        re[k] = "*" => k > 1 /\ re[k - 1] \notin {"*", "("}

RECURSIVE MatchHere(_, _)
MatchHere(re, t) ==
  IF re = <<>> THEN TRUE
  ELSE IF Len(re) >= 2 /\ re[2] = "*"
  THEN \E k \in 0..Len(t) :
          /\ \A j \in 1..k : re[1] = "." \/ t[j] = re[1]
          /\ MatchHere(SubSeq(re, 3, Len(re)), SubSeq(t, k + 1, Len(t)))
  ELSE IF re = <<"$">> THEN t = <<>>
  ELSE IF t # <<>> /\ (re[1] = "." \/ re[1] = t[1])
  THEN MatchHere(Tail(re), Tail(t))
  ELSE FALSE

(* re.MatchString(t): the pattern matches somewhere in t *)
MatchString(re, t) ==
  IF re # <<>> /\ Head(re) = "^"
  THEN MatchHere(Tail(re), t)
  ELSE \E i \in 0..Len(t) : MatchHere(re, SubSeq(t, i + 1, Len(t)))

----------------------------------------------------------------------------
(* The matchers FromRequest builds.  A function is its full name; a span   *)
(* is a record of its function and its trace's id.                         *)

FnAll == [kind |-> "all", re |-> EmptyStr, set |-> {}]

FnRegex(re) == [kind |-> "regex", re |-> re, set |-> {}]

FnSet(S) == [kind |-> "set", re |-> EmptyStr, set |-> S]

(* fnMatcher(f): the three closures of lines 141, 149 and 172 *)
fnMatcher(m, fn) ==
  CASE m.kind = "all" -> TRUE
    [] m.kind = "regex" -> MatchString(m.re, fn)
    [] m.kind = "set" -> fn \in m.set
    [] OTHER -> FALSE

SpanAny(m) == [byId |-> FALSE, id |-> ToInt64(Zero), fn |-> m]

SpanById(id, m) == [byId |-> TRUE, id |-> id, fn |-> m]

NoMatcher == [byId |-> FALSE, id |-> ToInt64(Zero),
              fn |-> [kind |-> "none", re |-> EmptyStr, set |-> {}]]

(* A variant of spanMatcher whose trace-id closure drops the function     *)
(* matcher                                                                 *)
spanMatcherIdOnly(sm, s) ==
  IF sm.byId
  THEN s.id = sm.id
  ELSE fnMatcher(sm.fn, s.fn)

(* spanMatcher(s): the two closures of lines 176 and 184 *)
spanMatcher(sm, s) ==
  IF sm.byId
  THEN s.id = sm.id /\ fnMatcher(sm.fn, s.fn)
  ELSE fnMatcher(sm.fn, s.fn)

----------------------------------------------------------------------------
(* Results. *)

Nil == [fn |-> "nil", prefix |-> EmptyStr, matcher |-> NoMatcher,
        buffered |-> FALSE]

(* curry(reg, f) and the closures over the registry *)
curry(name) == [fn |-> name, prefix |-> EmptyStr, matcher |-> NoMatcher,
                buffered |-> FALSE]

Filtered(name, prefix) == [fn |-> name, prefix |-> prefix,
                           matcher |-> NoMatcher, buffered |-> FALSE]

TraceQuery(name, sm) == [fn |-> name, prefix |-> EmptyStr, matcher |-> sm,
                         buffered |-> FALSE]

Return3(fv, ct, e) == [f |-> fv, contentType |-> ct, err |-> e]

(* A variant of PathNotFound that reports the first segment, not the path *)
PathNotFoundFirst(p) ==
  Return3(Nil, "", NotFoundNew("path not found", shift(p)[1]))

(* The return after the switch: the path matched no case. *)
PathNotFound(p) == Return3(Nil, "", NotFoundNew("path not found", p))

(* A variant of PsCase whose JSON case keeps the text content-type *)
PsCaseJsonAsText(p, second) ==
  CASE second \in {EmptyStr, text} -> Return3(curry("SpansText"), TextPlain, NoErr)
    [] second = dot -> Return3(curry("SpansDot"), TextPlain, NoErr)
    [] second = json -> Return3(curry("SpansJSON"), TextPlain, NoErr)
    [] OTHER -> PathNotFound(p)

PsCase(p, second) ==
  CASE second \in {EmptyStr, text} -> Return3(curry("SpansText"), TextPlain, NoErr)
    [] second = dot -> Return3(curry("SpansDot"), TextPlain, NoErr)
    [] second = json -> Return3(curry("SpansJSON"), ApplicationJSON, NoErr)
    [] OTHER -> PathNotFound(p)

FuncsCase(p, second) ==
  CASE second \in {EmptyStr, text} -> Return3(curry("FuncsText"), TextPlain, NoErr)
    [] second = dot -> Return3(curry("FuncsDot"), TextPlain, NoErr)
    [] second = json -> Return3(curry("FuncsJSON"), ApplicationJSON, NoErr)
    [] OTHER -> PathNotFound(p)

StatsCase(p, second, q) ==
  LET prefix == Get(q, "prefix")
  IN CASE second \in {EmptyStr, text} ->
            Return3(Filtered("FilteredStatsText", prefix), TextPlain, NoErr)
       [] second = json ->
            Return3(Filtered("FilteredStatsJSON", prefix), ApplicationJSON, NoErr)
       [] OTHER -> PathNotFound(p)

(* A variant of Preselect whose default is false *)
PreselectDefaultFalse(q) ==
  IF Get(q, "preselect") # EmptyStr
  THEN ParseBool(Get(q, "preselect"))
  ELSE [ok |-> TRUE, val |-> FALSE]

(* A variant of Preselect that parses the parameter and then keeps true *)
PreselectKeptTrue(q) ==
  IF Get(q, "preselect") # EmptyStr
  THEN [ok |-> ParseBool(Get(q, "preselect")).ok, val |-> TRUE]
  ELSE [ok |-> TRUE, val |-> TRUE]

(* Lines 153-160: [ok, val], the value of preselect *)
Preselect(q) ==
  IF Get(q, "preselect") # EmptyStr
  THEN ParseBool(Get(q, "preselect"))
  ELSE [ok |-> TRUE, val |-> TRUE]

(* Lines 162-167: the known functions the regex matches *)
Preselected(reg, re) == {fn \in reg : fnMatcher(FnRegex(re), fn)}

(* A variant of BuildFnMatcher that checks the preselection but keeps the  *)
(* regex as the matcher                                                    *)
BuildFnMatcherLive(reg, q) ==
  LET regexStr == Get(q, "regex")
  IN IF regexStr = EmptyStr THEN [err |-> NoErr, m |-> FnAll]
     ELSE IF ~Compile(regexStr)
     THEN [err |-> BadRequestNew("invalid regex", regexStr), m |-> FnAll]
     ELSE IF ~Preselect(q).ok
     THEN [err |-> BadRequestNew("invalid preselect", Get(q, "preselect")),
           m |-> FnAll]
     ELSE IF Preselect(q).val /\ Cardinality(Preselected(reg, regexStr)) <= 0
     THEN [err |-> BadRequestNew("regex preselect matches 0 functions",
                                 EmptyStr),
           m |-> FnAll]
     ELSE [err |-> NoErr, m |-> FnRegex(regexStr)]

(* Lines 141-174: [err, m], the function matcher or the error *)
BuildFnMatcher(reg, q) ==
  LET regexStr == Get(q, "regex")
  IN IF regexStr = EmptyStr THEN [err |-> NoErr, m |-> FnAll]
     ELSE IF ~Compile(regexStr)
     THEN [err |-> BadRequestNew("invalid regex", regexStr), m |-> FnAll]
     ELSE IF ~Preselect(q).ok
     THEN [err |-> BadRequestNew("invalid preselect", Get(q, "preselect")),
           m |-> FnAll]
     ELSE IF Preselect(q).val
     THEN IF Cardinality(Preselected(reg, regexStr)) <= 0
          THEN [err |-> BadRequestNew("regex preselect matches 0 functions",
                                      EmptyStr),
                m |-> FnAll]
          ELSE [err |-> NoErr, m |-> FnSet(Preselected(reg, regexStr))]
     ELSE [err |-> NoErr, m |-> FnRegex(regexStr)]

(* Lines 176-187: [err, sm], the span matcher or the error *)
BuildSpanMatcher(m, q) ==
  LET traceIdStr == Get(q, "trace_id")
  IN IF traceIdStr = EmptyStr THEN [err |-> NoErr, sm |-> SpanAny(m)]
     ELSE IF ~ParseUint(traceIdStr).ok
     THEN [err |-> BadRequestNew("trace_id expected to be hex unsigned 64 bit number",
                                 traceIdStr),
           sm |-> NoMatcher]
     ELSE [err |-> NoErr,
           sm |-> SpanById(ToInt64(ParseUint(traceIdStr).val), m)]

TraceCase(reg, p, second, q) ==
  IF Get(q, "regex") = EmptyStr /\ Get(q, "trace_id") = EmptyStr
  THEN Return3(Nil, "", BadRequestNew(
         "at least one of 'regex' or 'trace_id' query parameters required",
         EmptyStr))
  ELSE LET fm == BuildFnMatcher(reg, q)
           sm == BuildSpanMatcher(fm.m, q)
       IN IF fm.err # NoErr THEN Return3(Nil, "", fm.err)
          ELSE IF sm.err # NoErr THEN Return3(Nil, "", sm.err)
          ELSE CASE second = svg ->
                      Return3(TraceQuery("TraceQuerySVG", sm.sm), ImageSVG, NoErr)
                 [] second = json ->
                      Return3(TraceQuery("TraceQueryJSON", sm.sm),
                              ApplicationJSON, NoErr)
                 [] OTHER -> PathNotFound(p)

(* Lines 98-200: the body of FromRequest *)
Route(reg, p, q) ==
  LET first == shift(p)[1]
      rest == shift(p)[2]
      second == shift(rest)[1]
  IN CASE first = ps -> PsCase(p, second)
       [] first = funcsSeg -> FuncsCase(p, second)
       [] first = stats -> StatsCase(p, second, q)
       [] first = trace -> TraceCase(reg, p, second, q)
       [] OTHER -> PathNotFound(p)

(* A variant of Deferred that wraps f whatever err is *)
DeferredAlways(r) == [r EXCEPT !.f.buffered = TRUE]

(* Lines 81-96: the deferred function, run on the values being returned *)
Deferred(r) ==
  IF r.err # NoErr THEN r
  ELSE [r EXCEPT !.f.buffered = TRUE]

(* FromRequest's three results *)
Results(reg, p, q) == Deferred(Route(reg, p, q))

----------------------------------------------------------------------------
(* The bufio.Writer of line 88, over a sink that accepts every write. *)

defaultBufSize == 4096

(* bufio.Writer.Write of k bytes with n bytes buffered and s bytes in the  *)
(* sink: while the bytes left exceed the free space, an empty buffer       *)
(* passes them straight to the sink and a non-empty one is filled and      *)
(* flushed; what is left is then copied into the buffer.                   *)
RECURSIVE BufWrite(_, _, _)
BufWrite(n, s, k) ==
  IF k > defaultBufSize - n
  THEN IF n = 0
       THEN BufWrite(0, s + k, 0)
       ELSE BufWrite(0, s + defaultBufSize, k - (defaultBufSize - n))
  ELSE [buf |-> n + k, sink |-> s]

(* A variant of Finish that flushes whatever the inner producer returned *)
FinishAlwaysFlush(e, n, s) == [ret |-> e, buf |-> 0, sink |-> s + n]

(* Lines 89-94: the inner producer has returned e with n bytes buffered    *)
(* and s bytes in the sink.                                                *)
Finish(e, n, s) ==
  IF e # NoErr
  THEN [ret |-> e, buf |-> n, sink |-> s]
  ELSE [ret |-> NoErr, buf |-> 0, sink |-> s + n]

----------------------------------------------------------------------------
(* Inputs. *)

Foo == <<"F", "o", "o">>

Bar == <<"B", "a", "r">>

FooBar == <<"F", "o", "o", "B", "a", "r">>

FuncNames == {Foo, Bar, FooBar}

Slashes(n) == [i \in 1..n |-> "/"]

bogus == <<"b", "o", "g", "u", "s">>

Firsts == {EmptyStr, ps, funcsSeg, stats, trace, bogus}

Seconds == {EmptyStr, text, dot, json, svg, bogus}

Extras == {EmptyStr, <<"/", "x">>}

(* Paths: slashes, a segment, slashes, a segment, further segments *)
Paths ==
  {Slashes(i) \o a \o Slashes(j) \o b \o x :
     i \in 0..MaxSlashes, a \in Firsts, j \in 0..MaxSlashes, b \in Seconds,
     x \in Extras}

Values(q, r, pre, pfx) ==
  [regex |-> q, trace_id |-> r, preselect |-> pre, prefix |-> pfx]

Absent == <<>>

NoQuery == Values(Absent, Absent, Absent, Absent)

Regexes == {Absent, <<EmptyStr>>, <<<<".", "*">>>>, <<<<"^", "F", "o", "o", "$">>>>,
            <<<<"F", "o">>>>, <<<<"(">>>>, <<<<"*">>>>}

F16 == [i \in 1..WordLen |-> "f"]

MinInt64Hex == <<"8">> \o [i \in 1..(WordLen - 1) |-> "0"]

TooBigHex == <<"1">> \o [i \in 1..WordLen |-> "0"]

TraceIds == {Absent, <<EmptyStr>>, <<<<"f", "f">>>>, <<<<"0", "F", "F">>>>,
             <<<<"z", "z">>>>, <<F16>>, <<MinInt64Hex>>, <<TooBigHex>>}

Preselects == {Absent, <<EmptyStr>>, <<<<"t", "r", "u", "e">>>>,
               <<<<"f", "a", "l", "s", "e">>>>, <<<<"y", "e", "s">>>>, <<<<"0">>>>}

Prefixes == {Absent, <<<<"a">>>>}

(* A word from its low digits *)
Word(ds) ==
  [i \in 1..WordLen |->
     IF i <= WordLen - Len(ds) THEN 0 ELSE ds[i - (WordLen - Len(ds))]]

(* Trace ids of spans: 255, 1, -1, -2^63 *)
SpanIds ==
  {[neg |-> FALSE, mag |-> Word(<<15, 15>>)],
   [neg |-> FALSE, mag |-> Word(<<1>>)],
   [neg |-> TRUE, mag |-> Word(<<1>>)],
   [neg |-> TRUE, mag |-> [i \in 1..WordLen |-> IF i = 1 THEN 8 ELSE 0]]}

Chunks == {1, defaultBufSize - 1, defaultBufSize, defaultBufSize + 1}

IoErr == [class |-> "io", msg |-> "write failed", arg |-> EmptyStr]

NoSpan == [fn |-> EmptyStr, id |-> ToInt64(Zero)]

TraceProducers == {"TraceQuerySVG", "TraceQueryJSON"}

----------------------------------------------------------------------------
(* The state machine. *)

Init ==
  /\ funcs = {}
  /\ path = EmptyStr
  /\ query = NoQuery
  /\ f = Nil
  /\ contentType = ""
  /\ err = NoErr
  /\ regAtCall = {}
  /\ pc = "idle"
  /\ buf = 0
  /\ sink = 0
  /\ nwrites = 0
  /\ written = 0
  /\ inner = NoErr
  /\ ret = NoErr
  /\ span = NoSpan
  /\ matched = FALSE

(* The registry learns a function. *)
Register(fn) ==
  /\ fn \notin funcs
  /\ funcs' = funcs \cup {fn}
  /\ UNCHANGED <<path, query, f, contentType, err, regAtCall, pc, buf, sink,
                 nwrites, written, inner, ret, span, matched>>

(* FromRequest(reg, p, q) *)
FromRequest(p, q) ==
  /\ pc = "idle"
  /\ path' = p
  /\ query' = q
  /\ f' = Results(funcs, p, q).f
  /\ contentType' = Results(funcs, p, q).contentType
  /\ err' = Results(funcs, p, q).err
  /\ regAtCall' = funcs
  /\ pc' = IF Results(funcs, p, q).err = NoErr THEN "ready" ELSE "failed"
  /\ UNCHANGED <<funcs, buf, sink, nwrites, written, inner, ret, span,
                 matched>>

(* The caller invokes the Result on the request's sink; line 88 *)
Call ==
  /\ pc = "ready"
  /\ pc' = "running"
  /\ buf' = 0
  /\ UNCHANGED <<funcs, path, query, f, contentType, err, regAtCall, sink,
                 nwrites, written, inner, ret, span, matched>>

(* The inner producer writes k bytes to the writer it was given. *)
Write(k) ==
  /\ pc = "running"
  /\ nwrites < MaxWrites
  /\ nwrites' = nwrites + 1
  /\ written' = written + k
  /\ buf' = IF f.buffered THEN BufWrite(buf, sink, k).buf ELSE buf
  /\ sink' = IF f.buffered THEN BufWrite(buf, sink, k).sink ELSE sink + k
  /\ UNCHANGED <<funcs, path, query, f, contentType, err, regAtCall, pc,
                 inner, ret, span, matched>>

(* A trace producer asks the span matcher about a span of a known function. *)
ObserveSpan(fn, id) ==
  /\ pc = "running"
  /\ f.fn \in TraceProducers
  /\ fn \in funcs
  /\ span' = [fn |-> fn, id |-> id]
  /\ matched' = spanMatcher(f.matcher, [fn |-> fn, id |-> id])
  /\ UNCHANGED <<funcs, path, query, f, contentType, err, regAtCall, pc, buf,
                 sink, nwrites, written, inner, ret>>

(* The inner producer returns e; lines 89-94 *)
Return(e) ==
  /\ pc = "running"
  /\ pc' = "returned"
  /\ inner' = e
  /\ ret' = Finish(e, buf, sink).ret
  /\ buf' = Finish(e, buf, sink).buf
  /\ sink' = Finish(e, buf, sink).sink
  /\ UNCHANGED <<funcs, path, query, f, contentType, err, regAtCall, nwrites,
                 written, span, matched>>

(* Requests on every path, with few queries. *)
PathRequests ==
  {<<p, q>> : p \in Paths,
              q \in {NoQuery,
                     Values(<<<<".", "*">>>>, Absent, Absent, <<<<"a">>>>)}}

(* Requests on the trace paths: every regex with every preselect, and     *)
(* every trace_id with some of them.                                       *)
TraceQueries ==
  {Values(x, y, z, Absent) :
     x \in Regexes, y \in {Absent, <<<<"f", "f">>>>}, z \in Preselects}
  \cup
  {Values(x, y, z, Absent) :
     x \in {Absent, <<<<"F", "o">>>>, <<<<"(">>>>}, y \in TraceIds,
     z \in {Absent, <<<<"f", "a", "l", "s", "e">>>>}}

TraceRequests ==
  {<<p, q>> :
     p \in {<<"/">> \o trace \o <<"/">> \o svg, trace \o <<"/">> \o json,
            <<"/">> \o trace, trace \o <<"/">> \o text},
     q \in TraceQueries}

(* A few requests, for producers that write much. *)
FewRequests ==
  {<<p, Values(x, Absent, Absent, y)>> :
     p \in {ps, <<"/">> \o funcsSeg \o <<"/">> \o dot, stats \o <<"/">> \o json,
            trace \o <<"/">> \o svg, bogus},
     x \in {Absent, <<<<"F", "o">>>>}, y \in Prefixes}

NextOn(Requests, Sizes) ==
  \/ \E fn \in FuncNames : Register(fn)
  \/ \E r \in Requests : FromRequest(r[1], r[2])
  \/ Call
  \/ \E k \in Sizes : Write(k)
  \/ \E fn \in FuncNames, id \in SpanIds : ObserveSpan(fn, id)
  \/ \E e \in {NoErr, IoErr} : Return(e)

Next == NextOn(PathRequests, {defaultBufSize + 1})

Spec == Init /\ [][Next]_vars

NextTrace == NextOn(TraceRequests, {defaultBufSize + 1})

SpecTrace == Init /\ [][NextTrace]_vars

NextWrites == NextOn(FewRequests, Chunks)

SpecWrites == Init /\ [][NextWrites]_vars

----------------------------------------------------------------------------
(* Vocabulary of the properties, stated apart from the code's operators.   *)

(* The segments of a path: its maximal slash-free pieces, in order *)
RECURSIVE Segments(_)
Segments(p) ==
  IF p = <<>> THEN <<>>
  ELSE IF Head(p) = "/" THEN Segments(Tail(p))
  ELSE LET n == IF \E i \in 1..Len(p) : p[i] = "/"
                THEN (CHOOSE i \in 1..Len(p) :
                        p[i] = "/" /\ \A j \in 1..(i - 1) : p[j] # "/") - 1
                ELSE Len(p)
       IN <<SubSeq(p, 1, n)>> \o Segments(SubSeq(p, n + 1, Len(p)))

Segment(p, k) == IF Len(Segments(p)) >= k THEN Segments(p)[k] ELSE EmptyStr

(* A parameter is present: it has a value and the value is not empty *)
Present(q, key) == q[key] # <<>> /\ q[key][1] # EmptyStr

Value(q, key) == q[key][1]

Dispatched == pc # "idle"

Succeeded == pc \in {"ready", "running", "returned"}

(* preselect is true, given or by default *)
PreselectTrue(q) ==
  \/ ~Present(q, "preselect")
  \/ ParseBool(Value(q, "preselect")).ok /\ ParseBool(Value(q, "preselect")).val

(* The five ways a trace query yields no matcher over registry reg *)
BadQuery(reg, q) ==
  \/ ~Present(q, "regex") /\ ~Present(q, "trace_id")
  \/ Present(q, "regex") /\ ~Compile(Value(q, "regex"))
  \/ /\ Present(q, "regex")
     /\ Present(q, "preselect")
     /\ ~ParseBool(Value(q, "preselect")).ok
  \/ /\ Present(q, "regex")
     /\ PreselectTrue(q)
     /\ ~\E fn \in reg : MatchString(Value(q, "regex"), fn)
  \/ Present(q, "trace_id") /\ ~ParseUint(Value(q, "trace_id")).ok

(* The pair is in the dispatch table *)
InTable(a, b, reg, q) ==
  \/ a \in {ps, funcsSeg} /\ b \in {EmptyStr, text, dot, json}
  \/ a = stats /\ b \in {EmptyStr, text, json}
  \/ a = trace /\ b \in {svg, json} /\ ~BadQuery(reg, q)

(* The media type the table lists for a subformat *)
MediaType(b) ==
  CASE b \in {EmptyStr, text, dot} -> "text/plain"
    [] b = json -> "application/json"
    [] b = svg -> "image/svg+xml"
    [] OTHER -> ""

----------------------------------------------------------------------------
C2_TableBareType ==
  (Dispatched /\ InTable(Segment(path, 1), Segment(path, 2), regAtCall, query)) =>
     /\ f # Nil
     /\ err = NoErr
     /\ contentType = MediaType(Segment(path, 2))

(* C2 amended: for every pair of the dispatch table the producer is not    *)
(* nil, the error is nil and the content-type is the listed media type     *)
(* followed by "; charset=utf-8".                                          *)
C2_TableTypeWithCharset ==
  (Dispatched /\ InTable(Segment(path, 1), Segment(path, 2), regAtCall, query)) =>
     /\ f # Nil
     /\ f.fn # "nil"
     /\ err = NoErr
     /\ contentType = MediaType(Segment(path, 2)) \o "; charset=utf-8"

C2_Witness ==
  /\ Dispatched
  /\ Segment(path, 1) = trace
  /\ Segment(path, 2) = svg
  /\ f.fn = "TraceQuerySVG"
  /\ contentType = "image/svg+xml; charset=utf-8"

(* The second segment is not a subformat accepted for the first *)
NotAccepted(a, b) ==
  \/ a \in {ps, funcsSeg} /\ b \notin {EmptyStr, text, dot, json}
  \/ a = stats /\ b \notin {EmptyStr, text, json}
  \/ a = trace /\ b \notin {svg, json}

IsNotFound == f = Nil /\ contentType = "" /\ err = NotFoundNew("path not found", path)

(* C3 as stated: for every query, an unknown first segment or a second     *)
(* segment not accepted for the resource fails with Not Found carrying the *)
(* path.                                                                   *)
C3_NotFoundForEveryQuery ==
  (/\ Dispatched
   /\ \/ Segment(path, 1) \notin {ps, funcsSeg, stats, trace}
      \/ NotAccepted(Segment(path, 1), Segment(path, 2))) => IsNotFound

(* C3 amended: an unknown first segment, or a second segment not accepted  *)
(* for ps, funcs or stats, fails with Not Found carrying the path for      *)
(* every query; a second segment not accepted for trace fails with Not     *)
(* Found carrying the path when the query yields a matcher (and with Bad   *)
(* Request when it does not).                                              *)
C3_NotFoundUnlessBadQuery ==
  (/\ Dispatched
   /\ \/ Segment(path, 1) \notin {ps, funcsSeg, stats, trace}
      \/ NotAccepted(Segment(path, 1), Segment(path, 2))) =>
     IF Segment(path, 1) = trace /\ BadQuery(regAtCall, query)
     THEN err.class = "Bad Request" /\ f = Nil
     ELSE IsNotFound

C3_Witness ==
  /\ Dispatched
  /\ Segment(path, 1) = trace
  /\ Segment(path, 2) = EmptyStr
  /\ ~BadQuery(regAtCall, query)
  /\ IsNotFound

(* C4: on a path whose first segment is trace, whatever the second, the    *)
(* dispatch fails with Bad Request exactly when the query is bad in one of *)
(* the five ways.                                                          *)
C4_BadRequestIff ==
  (Dispatched /\ Segment(path, 1) = trace) =>
     (err.class = "Bad Request" <=> BadQuery(regAtCall, query))

C4_Witness ==
  /\ Dispatched
  /\ Segment(path, 1) = trace
  /\ Segment(path, 2) = text
  /\ Present(query, "regex")
  /\ Compile(Value(query, "regex"))
  /\ ~Present(query, "preselect")
  /\ regAtCall # {}
  /\ err = BadRequestNew("regex preselect matches 0 functions", EmptyStr)

----------------------------------------------------------------------------
(* Numbers, for the properties about trace ids. *)

(* The carry into digit i when words a and b are added *)
RECURSIVE Carry(_, _, _)
Carry(a, b, i) ==
  IF i >= WordLen THEN 0
  ELSE (a[i + 1] + b[i + 1] + Carry(a, b, i + 1)) \div Base

(* a + b = 2^64 *)
SumIsTwoTo64(a, b) ==
  /\ Carry(a, b, 0) = 1
  /\ \A i \in 1..WordLen : (a[i] + b[i] + Carry(a, b, i)) % Base = 0

(* The int64 id and the uint64 v are the same number *)
NumEq(id, v) == ~id.neg /\ id.mag = v

(* The int64 id and the uint64 v are congruent modulo 2^64: id = v, or    *)
(* id is negative and id = v - 2^64                                        *)
SameBits(id, v) ==
  IF id.neg THEN SumIsTwoTo64(id.mag, v) ELSE id.mag = v

ParsedId == ParseUint(Value(query, "trace_id")).val

(* The trace-id check of the current query on the observed span *)
IdCheck == ~Present(query, "trace_id") \/ SameBits(span.id, ParsedId)

(* What the function matcher of the current query is to accept *)
FnAccepts(fn) ==
  IF ~Present(query, "regex") THEN TRUE
  ELSE IF PreselectTrue(query)
  THEN fn \in regAtCall /\ MatchString(Value(query, "regex"), fn)
  ELSE MatchString(Value(query, "regex"), fn)

Observed == Succeeded /\ span # NoSpan

----------------------------------------------------------------------------
(* C5: with regex present and preselect true, whatever was registered      *)
(* since, the span matcher accepts a span exactly when its function was    *)
(* known when FromRequest ran and matched the regex (and the trace-id      *)
(* check passes).                                                          *)
C5_PreselectIsSnapshot ==
  (Observed /\ Present(query, "regex") /\ PreselectTrue(query)) =>
     (matched <=> /\ span.fn \in regAtCall
                  /\ MatchString(Value(query, "regex"), span.fn)
                  /\ IdCheck)

C5_Witness ==
  /\ Observed
  /\ Present(query, "regex")
  /\ PreselectTrue(query)
  /\ span.fn \notin regAtCall
  /\ MatchString(Value(query, "regex"), span.fn)
  /\ IdCheck
  /\ ~matched

(* C6: with regex present and preselect false, on a trace path with a      *)
(* subformat, the dispatch succeeds whatever the registry knows, and the   *)
(* span matcher accepts a span exactly when its function's full name       *)
(* matches the regex (and the trace-id check passes), also for a function  *)
(* registered after FromRequest ran.                                       *)
C6_NoPreselectIsLive ==
  (/\ Dispatched
   /\ Segment(path, 1) = trace
   /\ Segment(path, 2) \in {svg, json}
   /\ Present(query, "regex")
   /\ Compile(Value(query, "regex"))
   /\ Present(query, "preselect")
   /\ ParseBool(Value(query, "preselect")).ok
   /\ ~ParseBool(Value(query, "preselect")).val
   /\ (Present(query, "trace_id") => ParseUint(Value(query, "trace_id")).ok)) =>
     /\ err = NoErr
     /\ f # Nil
     /\ span # NoSpan =>
          (matched <=> MatchString(Value(query, "regex"), span.fn) /\ IdCheck)

C6_Witness ==
  /\ Observed
  /\ regAtCall = {}
  /\ Present(query, "regex")
  /\ Value(query, "regex") = <<"^", "F", "o", "o", "$">>
  /\ Present(query, "preselect")
  /\ Value(query, "preselect") = <<"f", "a", "l", "s", "e">>
  /\ span.fn = Foo
  /\ matched

(* C7 as stated: with a valid trace_id the span matcher accepts a span     *)
(* exactly when its trace id is the number parsed and the function matcher *)
(* accepts its function.                                                   *)
C7_IdEqualsParsedAndFn ==
  (Observed /\ Present(query, "trace_id")) =>
     (matched <=> NumEq(span.id, ParsedId) /\ FnAccepts(span.fn))

(* C7 amended: with a valid trace_id the span matcher accepts a span       *)
(* exactly when its trace id is the number parsed converted to a signed    *)
(* 64-bit integer (the same 64 bits) and the function matcher accepts its  *)
(* function; with no regex, exactly when the trace id is that.             *)
C7_IdBitsEqualParsedAndFn ==
  (Observed /\ Present(query, "trace_id")) =>
     /\ matched <=> SameBits(span.id, ParsedId) /\ FnAccepts(span.fn)
     /\ ~Present(query, "regex") => (matched <=> SameBits(span.id, ParsedId))

C7_Witness ==
  /\ Observed
  /\ ~Present(query, "regex")
  /\ Present(query, "trace_id")
  /\ Value(query, "trace_id") = <<"f", "f">>
  /\ span.id = [neg |-> FALSE, mag |-> Word(<<15, 15>>)]
  /\ span.fn = Bar
  /\ matched

(* C8: FromRequest returns a producer, a content-type and no error, or no  *)
(* producer, no content-type and a Bad Request or Not Found error; until   *)
(* the producer is invoked nothing is written and no renderer has run.     *)
C8_ResultShape ==
  /\ Dispatched =>
       \/ /\ f # Nil
          /\ f.fn # "nil"
          /\ contentType # ""
          /\ err = NoErr
       \/ /\ f = Nil
          /\ contentType = ""
          /\ err.class \in {"Bad Request", "Not Found"}
  /\ pc = "failed" <=> (Dispatched /\ err # NoErr)
  /\ pc \in {"idle", "ready", "failed"} =>
       sink = 0 /\ buf = 0 /\ written = 0 /\ nwrites = 0 /\ span = NoSpan

C8_Witness ==
  /\ pc = "failed"
  /\ f = Nil
  /\ contentType = ""
  /\ err.class = "Bad Request"
  /\ sink = 0

(* What a dispatch is seen to return *)
Outcome(r) == <<r.err.class, r.contentType, r.f.fn>>

(* The path of the first two segments alone *)
Canon(p) ==
  IF Segment(p, 2) = EmptyStr THEN Segment(p, 1)
  ELSE Segment(p, 1) \o <<"/">> \o Segment(p, 2)

(* C9: the outcome is that of the path's first two segments alone, however *)
(* many slashes precede either and whatever follows the second; an absent  *)
(* second segment selects what "text" selects for ps, funcs and stats; and *)
(* shift gives ("a", "/b/c"), ("a", "") and ("", "") on "/a/b/c", "a", "". *)
C9_FirstTwoSegmentsOnly ==
  /\ shift(<<"/", "a", "/", "b", "/", "c">>) = <<<<"a">>, <<"/", "b", "/", "c">>>>
  /\ shift(<<"a">>) = <<<<"a">>, EmptyStr>>
  /\ shift(EmptyStr) = <<EmptyStr, EmptyStr>>
  /\ Dispatched =>
       /\ <<err.class, contentType, f.fn>>
            = Outcome(Results(regAtCall, Canon(path), query))
       /\ (Segment(path, 1) \in {ps, funcsSeg, stats} /\ Segment(path, 2) = EmptyStr) =>
            <<err.class, contentType, f.fn>>
              = Outcome(Results(regAtCall, Segment(path, 1) \o <<"/">> \o text, query))

C9_Witness ==
  /\ Dispatched
  /\ Len(path) >= 11
  /\ SubSeq(path, 1, 2) = <<"/", "/">>
  /\ Segments(path) = <<ps, dot, <<"x">>>>
  /\ f.fn = "SpansDot"

(* C10 as stated: with a valid trace_id the dispatch succeeds (the rest of *)
(* the request allowing) and the span matcher accepts only spans whose     *)
(* trace id is the number parsed.                                          *)
C10_OnlyTheNumberParsed ==
  /\ (/\ Dispatched
      /\ Segment(path, 1) = trace
      /\ Segment(path, 2) \in {svg, json}
      /\ Present(query, "trace_id")
      /\ ParseUint(Value(query, "trace_id")).ok
      /\ ~Present(query, "regex")) => err = NoErr
  /\ (Observed /\ Present(query, "trace_id") /\ matched) =>
        NumEq(span.id, ParsedId)

(* C10 amended: with a valid trace_id the dispatch succeeds (the rest of   *)
(* the request allowing) and the span matcher accepts only spans whose     *)
(* trace id is congruent to the number parsed modulo 2^64: the number v    *)
(* itself when v < 2^63, and the negative number v - 2^64 when v >= 2^63,  *)
(* which it does accept.                                                   *)
C10_OnlyTheBitsParsed ==
  /\ (/\ Dispatched
      /\ Segment(path, 1) = trace
      /\ Segment(path, 2) \in {svg, json}
      /\ Present(query, "trace_id")
      /\ ParseUint(Value(query, "trace_id")).ok
      /\ ~Present(query, "regex")) => err = NoErr
  /\ (Observed /\ Present(query, "trace_id") /\ matched) =>
        SameBits(span.id, ParsedId)
  /\ (/\ Observed
      /\ Present(query, "trace_id")
      /\ 2 * ParsedId[1] >= Base
      /\ span.id.neg
      /\ SumIsTwoTo64(span.id.mag, ParsedId)
      /\ FnAccepts(span.fn)) => matched

C10_Witness ==
  /\ Observed
  /\ Present(query, "trace_id")
  /\ Value(query, "trace_id") = F16
  /\ span.id = [neg |-> TRUE, mag |-> Word(<<1>>)]
  /\ matched

====
